---- MODULE Spec2Model ----
(***************************************************************************)
(* StreamingJsonParser (src/code/assignment.py, repeated verbatim in       *)
(* src/code/main.py): an incremental parser of a subset of JSON objects.   *)
(*                                                                         *)
(* A Python str is a sequence of one-character strings.  A dict is an      *)
(* ordered sequence of entries (insertion order, as Python dicts keep it)  *)
(* living in a heap; frames of the stack hold heap handles, because the    *)
(* code's frames hold references to the dicts, not copies.  None is the    *)
(* empty sequence and a present key k is <<k>>.                            *)
(***************************************************************************)
EXTENDS Integers, Sequences, FiniteSets, TLC

VARIABLES
    buffer,           \* self.buffer
    partial_json,     \* self.partial_json: the handle of the root dict
    heap,             \* the dicts the parser has created, by handle
    stack,            \* self.stack: frames (current_object, current_key)
    in_string,        \* self.in_string
    escape,           \* self.escape
    current_string,   \* self.current_string
    expecting_colon,  \* self.expecting_colon
    i,                \* _parse's local index into self.buffer
    pc,               \* "idle": no call in progress; "scan": inside _parse
    raised,           \* an exception has propagated out of consume
    fed,              \* history: every character passed to consume so far
    chunk_start,      \* history: Len(fed) when the latest consume call began
    snapshot          \* the caller's reference from get(); 0: get() not called

vars == <<buffer, partial_json, heap, stack, in_string, escape,
          current_string, expecting_colon, i, pc, raised, fed, chunk_start,
          snapshot>>

-----------------------------------------------------------------------------
(* Bounds of the model *)

\* total number of characters of arbitrary chunks fed to one parser
MaxFed == 5

\* longest chunk one consume call is given
MaxChunk == 2

-----------------------------------------------------------------------------
(* Characters *)

LBRACE == "{"
RBRACE == "}"
QUOTE == "\""
BACKSLASH == "\\"
COLON == ":"
COMMA == ","

\* characters for which str.isspace() is true
WhiteSpace == {" ", "\t", "\n", "\r"}

\* the characters arbitrary chunks are drawn from
Alphabet == {LBRACE, RBRACE, QUOTE, BACKSLASH, COLON, "a"}

RECURSIVE TextsOfLen(_)
TextsOfLen(n) ==
    IF n = 0 THEN {<<>>}
    ELSE {Append(t, c) : t \in TextsOfLen(n - 1), c \in Alphabet}

Chunks == UNION {TextsOfLen(n) : n \in 0..MaxChunk}

IsPrefix(s, t) == Len(s) <= Len(t) /\ SubSeq(t, 1, Len(s)) = s

-----------------------------------------------------------------------------
(* Values, dicts and frames *)

None == <<>>
Some(k) == <<k>>

StrVal(s) == [kind |-> "str", str |-> s, ref |-> 0]
ObjVal(h) == [kind |-> "obj", str |-> <<>>, ref |-> h]

EmptyDict == <<>>

Frame(obj, key) == [obj |-> obj, key |-> key]

HasKey(d, k) == \E n \in 1..Len(d) : d[n].key = k

IndexOf(d, k) == CHOOSE n \in 1..Len(d) : d[n].key = k

GetItem(d, k) == d[IndexOf(d, k)].val

\* d[k] = v on a Python dict: an existing key keeps its place
SetItem(d, k, v) ==
    IF HasKey(d, k)
    THEN [d EXCEPT ![IndexOf(d, k)] = [key |-> k, val |-> v]]
    ELSE Append(d, [key |-> k, val |-> v])

-----------------------------------------------------------------------------
(* The value get() returns, read by value *)

\* the dict with handle h of heap hp, nested dicts in place of handles
RECURSIVE Tree(_, _)
Tree(hp, h) ==
    [n \in 1..Len(hp[h]) |->
        LET e == hp[h][n] IN
        [key |-> e.key, kind |-> e.val.kind, str |-> e.val.str,
         obj |-> IF e.val.kind = "obj" THEN Tree(hp, e.val.ref) ELSE <<>>]]

\* get()
Get == Tree(heap, partial_json)

-----------------------------------------------------------------------------
(* The parser object as a record, and the code's steps as functions of it *)

Self ==
    [heap |-> heap, stack |-> stack, in_string |-> in_string,
     escape |-> escape, current_string |-> current_string,
     expecting_colon |-> expecting_colon, raised |-> raised]

\* a slip: the bottom frame given a dict of its own
NewParserOwnRootFrame ==
    [heap |-> <<EmptyDict, EmptyDict>>, stack |-> <<Frame(2, None)>>,
     in_string |-> FALSE, escape |-> FALSE, current_string |-> <<>>,
     expecting_colon |-> FALSE, raised |-> FALSE]

\* __init__
NewParser ==
    [heap |-> <<EmptyDict>>, stack |-> <<Frame(1, None)>>,
     in_string |-> FALSE, escape |-> FALSE, current_string |-> <<>>,
     expecting_colon |-> FALSE, raised |-> FALSE]

\* self.stack[-1] raises IndexError on an empty list
Raise(p) == [p EXCEPT !.raised = TRUE]

Top(p) == p.stack[Len(p.stack)]

SetTop(p, fr) == [p EXCEPT !.stack[Len(p.stack)] = fr]

\* a slip: the dict rebuilt from the entry written
StoreAlone(p, obj, k, v) ==
    [p EXCEPT !.heap[obj] = <<[key |-> k, val |-> v]>>]

\* current_obj[current_key] = v
Store(p, obj, k, v) == [p EXCEPT !.heap[obj] = SetItem(p.heap[obj], k, v)]

\* in a string, escape set
StringEscaped(p, c) ==
    [p EXCEPT !.current_string = Append(p.current_string, c),
              !.escape = FALSE]

\* in a string, a backslash
StringBackslash(p) == [p EXCEPT !.escape = TRUE]

\* in a string, any other character
StringAppend(p, c) ==
    [p EXCEPT !.current_string = Append(p.current_string, c)]

\* a slip: a closed key stored at once, with an empty value
StringCloseStoresKey(p) ==
    LET q == [p EXCEPT !.in_string = FALSE] IN
    IF Len(q.stack) = 0 THEN Raise(q)
    ELSE LET r == IF q.expecting_colon
                  THEN [SetTop(Store(q, Top(q).obj, q.current_string,
                                     StrVal(<<>>)),
                               Frame(Top(q).obj, Some(q.current_string)))
                            EXCEPT !.expecting_colon = FALSE]
                  ELSE IF Top(q).key # None
                       THEN SetTop(Store(q, Top(q).obj, Top(q).key[1],
                                         StrVal(q.current_string)),
                                   Frame(Top(q).obj, None))
                       ELSE q
         IN  [r EXCEPT !.current_string = <<>>]

\* a slip: the key left pending after its value is stored
StringCloseKeepsKey(p) ==
    LET q == [p EXCEPT !.in_string = FALSE] IN
    IF Len(q.stack) = 0 THEN Raise(q)
    ELSE LET r == IF q.expecting_colon
                  THEN [SetTop(q, Frame(Top(q).obj, Some(q.current_string)))
                            EXCEPT !.expecting_colon = FALSE]
                  ELSE IF Top(q).key # None
                       THEN Store(q, Top(q).obj, Top(q).key[1],
                                  StrVal(q.current_string))
                       ELSE q
         IN  [r EXCEPT !.current_string = <<>>]

\* a slip: the accumulator not reset when the string closes
StringCloseKeepsText(p) ==
    LET q == [p EXCEPT !.in_string = FALSE] IN
    IF Len(q.stack) = 0 THEN Raise(q)
    ELSE IF q.expecting_colon
         THEN [SetTop(q, Frame(Top(q).obj, Some(q.current_string)))
                   EXCEPT !.expecting_colon = FALSE]
         ELSE IF Top(q).key # None
              THEN SetTop(Store(q, Top(q).obj, Top(q).key[1],
                                StrVal(q.current_string)),
                          Frame(Top(q).obj, None))
              ELSE q

\* in a string, the closing quote
StringClose(p) ==
    LET q == [p EXCEPT !.in_string = FALSE] IN
    IF Len(q.stack) = 0 THEN Raise(q)
    ELSE LET r == IF q.expecting_colon
                  THEN [SetTop(q, Frame(Top(q).obj, Some(q.current_string)))
                            EXCEPT !.expecting_colon = FALSE]
                  ELSE IF Top(q).key # None
                       THEN SetTop(Store(q, Top(q).obj, Top(q).key[1],
                                         StrVal(q.current_string)),
                                   Frame(Top(q).obj, None))
                       ELSE q
         IN  [r EXCEPT !.current_string = <<>>]

\* a slip: the pending key of the parent frame not cleared
ObjectOpenKeepsKey(p) ==
    IF Len(p.stack) > 0 /\ Top(p).key # None
    THEN LET new_obj == Len(p.heap) + 1
             q == [p EXCEPT !.heap = Append(p.heap, EmptyDict)]
             r == Store(q, Top(q).obj, Top(q).key[1], ObjVal(new_obj))
         IN  [r EXCEPT !.stack = Append(r.stack, Frame(new_obj, None))]
    ELSE p

\* a slip: None stored under the key in place of the new dict
ObjectOpenStoresNone(p) ==
    IF Len(p.stack) > 0 /\ Top(p).key # None
    THEN LET new_obj == Len(p.heap) + 1
             q == [p EXCEPT !.heap = Append(p.heap, EmptyDict)]
             r == Store(q, Top(q).obj, Top(q).key[1],
                        [kind |-> "none", str |-> <<>>, ref |-> 0])
             s == SetTop(r, Frame(Top(r).obj, None))
         IN  [s EXCEPT !.stack = Append(s.stack, Frame(new_obj, None))]
    ELSE p

\* a slip: a '{' without pending key opens a frame of its own
ObjectOpenAlwaysPushes(p) ==
    IF Len(p.stack) > 0 /\ Top(p).key # None
    THEN LET new_obj == Len(p.heap) + 1
             q == [p EXCEPT !.heap = Append(p.heap, EmptyDict)]
             r == Store(q, Top(q).obj, Top(q).key[1], ObjVal(new_obj))
             s == SetTop(r, Frame(Top(r).obj, None))
         IN  [s EXCEPT !.stack = Append(s.stack, Frame(new_obj, None))]
    ELSE [p EXCEPT !.heap = Append(p.heap, EmptyDict),
                   !.stack = Append(p.stack, Frame(Len(p.heap) + 1, None))]

\* a slip: the frame pushed holds a dict of its own, not the one stored
ObjectOpenPushesOther(p) ==
    IF Len(p.stack) > 0 /\ Top(p).key # None
    THEN LET new_obj == Len(p.heap) + 1
             q == [p EXCEPT !.heap = Append(Append(p.heap, EmptyDict),
                                            EmptyDict)]
             r == Store(q, Top(q).obj, Top(q).key[1], ObjVal(new_obj))
             s == SetTop(r, Frame(Top(r).obj, None))
         IN  [s EXCEPT !.stack = Append(s.stack, Frame(new_obj + 1, None))]
    ELSE p

\* outside a string, '{'
ObjectOpen(p) ==
    IF Len(p.stack) > 0 /\ Top(p).key # None
    THEN LET new_obj == Len(p.heap) + 1
             q == [p EXCEPT !.heap = Append(p.heap, EmptyDict)]
             r == Store(q, Top(q).obj, Top(q).key[1], ObjVal(new_obj))
             s == SetTop(r, Frame(Top(r).obj, None))
         IN  [s EXCEPT !.stack = Append(s.stack, Frame(new_obj, None))]
    ELSE p

\* a slip: the frame of a closed object left on the stack
ObjectCloseKeepsFrame(p) == p

\* a slip: the guard of the root frame off by one
ObjectClosePopsRoot(p) ==
    IF Len(p.stack) > 0
    THEN [p EXCEPT !.stack = SubSeq(p.stack, 1, Len(p.stack) - 1)]
    ELSE p

\* outside a string, '}'
ObjectClose(p) ==
    IF Len(p.stack) > 1
    THEN [p EXCEPT !.stack = SubSeq(p.stack, 1, Len(p.stack) - 1)]
    ELSE p

\* a slip: every opening quote taken for the quote of a key
QuoteOpenAlwaysKey(p) ==
    LET q == [p EXCEPT !.in_string = TRUE] IN
    IF Len(q.stack) = 0 THEN Raise(q)
    ELSE [q EXCEPT !.expecting_colon = TRUE]

\* outside a string, '"'
QuoteOpen(p) ==
    LET q == [p EXCEPT !.in_string = TRUE] IN
    IF Len(q.stack) = 0 THEN Raise(q)
    ELSE IF Top(q).key = None /\ ~q.expecting_colon
         THEN [q EXCEPT !.expecting_colon = TRUE]
         ELSE q

\* a slip: get() hands out a copy of the root dict
GetReturnCopy(hp, root) ==
    [heap |-> Append(hp, hp[root]), ref |-> Len(hp) + 1]

\* get(): the heap as it leaves it and the reference it returns
GetReturn(hp, root) == [heap |-> hp, ref |-> root]

\* a slip: the closing quote tested before the escape flag
BranchQuoteFirst(p, c) ==
    IF p.in_string
    THEN IF c = QUOTE THEN "close"
         ELSE IF p.escape THEN "escaped"
         ELSE IF c = BACKSLASH THEN "backslash"
         ELSE "append"
    ELSE IF c = LBRACE THEN "object_open"
         ELSE IF c = RBRACE THEN "object_close"
         ELSE IF c = QUOTE THEN "quote"
         ELSE IF c = COLON THEN "colon"
         ELSE IF c = COMMA THEN "comma"
         ELSE IF c \in WhiteSpace THEN "space"
         ELSE "other"

\* the branch of the loop body that character c takes
Branch(p, c) ==
    IF p.in_string
    THEN IF p.escape THEN "escaped"
         ELSE IF c = BACKSLASH THEN "backslash"
         ELSE IF c = QUOTE THEN "close"
         ELSE "append"
    ELSE IF c = LBRACE THEN "object_open"
         ELSE IF c = RBRACE THEN "object_close"
         ELSE IF c = QUOTE THEN "quote"
         ELSE IF c = COLON THEN "colon"
         ELSE IF c = COMMA THEN "comma"
         ELSE IF c \in WhiteSpace THEN "space"
         ELSE "other"

\* one iteration of the while loop
Step(p, c) ==
    LET b == Branch(p, c) IN
    CASE b = "escaped" -> StringEscaped(p, c)
      [] b = "backslash" -> StringBackslash(p)
      [] b = "close" -> StringClose(p)
      [] b = "append" -> StringAppend(p, c)
      [] b = "object_open" -> ObjectOpen(p)
      [] b = "object_close" -> ObjectClose(p)
      [] b = "quote" -> QuoteOpen(p)
      [] OTHER -> p

\* a slip: an empty accumulator taken for "nothing to expose"
ExposePartialSkipsEmpty(p) ==
    IF p.in_string /\ ~p.expecting_colon /\ Len(p.stack) > 0
       /\ Top(p).key # None /\ p.current_string # <<>>
    THEN Store(p, Top(p).obj, Top(p).key[1], StrVal(p.current_string))
    ELSE p

\* a slip: the string in flight exposed whatever its role
ExposePartialAlsoKey(p) ==
    IF p.in_string /\ Len(p.stack) > 0
    THEN IF Top(p).key # None
         THEN Store(p, Top(p).obj, Top(p).key[1], StrVal(p.current_string))
         ELSE Store(p, Top(p).obj, p.current_string, StrVal(<<>>))
    ELSE p

\* a slip: the end of the chunk taken for the end of the string
ExposePartialResets(p) ==
    IF p.in_string /\ ~p.expecting_colon /\ Len(p.stack) > 0
       /\ Top(p).key # None
    THEN [Store(p, Top(p).obj, Top(p).key[1], StrVal(p.current_string))
             EXCEPT !.current_string = <<>>]
    ELSE p

\* after the loop: the partial value of an open value string
ExposePartial(p) ==
    IF p.in_string /\ ~p.expecting_colon
    THEN IF Len(p.stack) = 0 THEN Raise(p)
         ELSE IF Top(p).key # None
              THEN Store(p, Top(p).obj, Top(p).key[1],
                         StrVal(p.current_string))
              ELSE p
    ELSE p

\* the while loop over a whole text; an exception ends it
RECURSIVE Scan(_, _)
Scan(p, text) ==
    IF text = <<>> \/ p.raised THEN p
    ELSE Scan(Step(p, Head(text)), Tail(text))

\* consume(text) on parser p, as one function
ConsumeAll(p, text) ==
    LET q == Scan(p, text) IN
    IF q.raised THEN q ELSE ExposePartial(q)

-----------------------------------------------------------------------------
(* Documents: the texts the tests and the demo feed, with what they denote *)

\* a member "key": value of a document, in the shape Tree gives an entry;
\* kind "lit" is a literal the parser does not support (a number, null, ...)
StrMember(k, str) == [key |-> k, kind |-> "str", str |-> str, obj |-> <<>>]
ObjMember(k, ms) == [key |-> k, kind |-> "obj", str |-> <<>>, obj |-> ms]
LitMember(k, lit) == [key |-> k, kind |-> "lit", str |-> lit, obj |-> <<>>]

\* the text of an object with members ms; sp is the whitespace written
\* after each colon and comma
RECURSIVE Render(_, _)
RenderMember(m, sp) ==
    <<QUOTE>> \o m.key \o <<QUOTE, COLON>> \o sp \o
    (CASE m.kind = "str" -> <<QUOTE>> \o m.str \o <<QUOTE>>
       [] m.kind = "lit" -> m.str
       [] m.kind = "obj" -> Render(m.obj, sp))

RECURSIVE RenderMembers(_, _)
RenderMembers(ms, sp) ==
    IF Len(ms) = 0 THEN <<>>
    ELSE IF Len(ms) = 1 THEN RenderMember(ms[1], sp)
    ELSE RenderMember(ms[1], sp) \o <<COMMA>> \o sp
         \o RenderMembers(Tail(ms), sp)

Render(ms, sp) == <<LBRACE>> \o RenderMembers(ms, sp) \o <<RBRACE>>

\* the mapping a document denotes to this parser: unsupported literals
\* give no entry
RECURSIVE Denote(_)
Denote(ms) ==
    LET kept == SelectSeq(ms, LAMBDA m : m.kind # "lit") IN
    [n \in 1..Len(kept) |->
        IF kept[n].kind = "obj"
        THEN ObjMember(kept[n].key, Denote(kept[n].obj))
        ELSE kept[n]]

\* a document of the supported subset: strings and nested such objects
RECURSIVE Supported(_)
Supported(ms) ==
    \A n \in 1..Len(ms) :
        /\ ms[n].kind # "lit"
        /\ ms[n].kind = "obj" => Supported(ms[n].obj)

\* the members a nested object is given
InnerMembers ==
    {<<>>,
     <<StrMember(<<"c">>, <<"x">>)>>,
     <<StrMember(<<"a">>, <<"x">>)>>,
     <<LitMember(<<"c">>, <<"1">>)>>,
     <<StrMember(<<"c">>, <<"x">>), StrMember(<<"d">>, <<"y">>)>>,
     <<LitMember(<<"c">>, <<"1">>), StrMember(<<"d">>, <<"y">>)>>,
     <<ObjMember(<<"c">>, <<StrMember(<<"d">>, <<"x">>)>>)>>}

\* the values a top-level key is given
Members(k) ==
    {StrMember(k, <<"x", "y">>), StrMember(k, <<>>),
     LitMember(k, <<"1">>), LitMember(k, <<"n", "u", "l", "l">>)}
    \cup {ObjMember(k, ms) : ms \in InnerMembers}

Docs ==
    {<<>>}
    \cup {<<m>> : m \in Members(<<"a">>)}
    \cup {<<m, n>> : m \in Members(<<"a">>), n \in Members(<<"b">>)}
    \cup {<<StrMember(<<"k", "1">>, <<"v", "1">>),
            StrMember(<<"k", "2">>, <<"v", "2">>),
            StrMember(<<"k", "3">>, <<"v", "3">>)>>}

Spacings == {<<>>, <<" ">>}

\* documents that give a key twice: a dict keeps the later value
DuplicateKeyDocs ==
    {<<StrMember(<<"a">>, <<"x">>), ObjMember(<<"a">>, <<>>)>>,
     <<ObjMember(<<"a">>, <<StrMember(<<"c">>, <<"x">>)>>),
       StrMember(<<"a">>, <<"x", "y">>)>>}

DocTexts ==
    {Render(d, sp) : d \in Docs \cup DuplicateKeyDocs, sp \in Spacings}

-----------------------------------------------------------------------------
(* The state machine *)

Init ==
    /\ buffer = <<>>
    /\ partial_json = 1
    /\ heap = NewParser.heap
    /\ stack = NewParser.stack
    /\ in_string = NewParser.in_string
    /\ escape = NewParser.escape
    /\ current_string = NewParser.current_string
    /\ expecting_colon = NewParser.expecting_colon
    /\ i = 0
    /\ pc = "idle"
    /\ raised = FALSE
    /\ fed = <<>>
    /\ chunk_start = 0
    /\ snapshot = 0

\* the parser's fields become those of q
Becomes(q) ==
    /\ heap' = q.heap
    /\ stack' = q.stack
    /\ in_string' = q.in_string
    /\ escape' = q.escape
    /\ current_string' = q.current_string
    /\ expecting_colon' = q.expecting_colon
    /\ raised' = q.raised

\* consume(chunk): self.buffer += buffer, then _parse starts with i = 0
Call(chunk) ==
    /\ pc = "idle"
    /\ buffer' = buffer \o chunk
    /\ i' = 0
    /\ pc' = "scan"
    /\ fed' = fed \o chunk
    /\ chunk_start' = Len(fed)
    /\ UNCHANGED <<partial_json, heap, stack, in_string, escape,
                   current_string, expecting_colon, raised, snapshot>>

Consume ==
    \E chunk \in Chunks :
        /\ Len(fed) + Len(chunk) <= MaxFed
        /\ Call(chunk)

\* consume of the next piece of a document: a short chunk or all the rest
ConsumeDoc ==
    \E t \in DocTexts :
        /\ IsPrefix(fed, t)
        /\ \E n \in (0..MaxChunk) \cup {Len(t) - Len(fed)} :
            /\ Len(fed) + n <= Len(t)
            /\ Call(SubSeq(t, Len(fed) + 1, Len(fed) + n))

\* the character the loop body reads: self.buffer[i]
Char == buffer[i + 1]

\* the loop is running and its body takes branch b
Taking(b) ==
    /\ pc = "scan"
    /\ i < Len(buffer)
    /\ Branch(Self, Char) = b

\* the loop body leaves the parser as q; an exception leaves consume
Iterated(q) ==
    /\ Becomes(q)
    /\ IF q.raised
       THEN pc' = "idle" /\ i' = 0
       ELSE pc' = "scan" /\ i' = i + 1
    /\ UNCHANGED <<buffer, partial_json, fed, chunk_start, snapshot>>

InStringEscaped ==
    /\ Taking("escaped")
    /\ Iterated(StringEscaped(Self, Char))

InStringBackslash ==
    /\ Taking("backslash")
    /\ Iterated(StringBackslash(Self))

InStringClose ==
    /\ Taking("close")
    /\ Iterated(StringClose(Self))

InStringAppend ==
    /\ Taking("append")
    /\ Iterated(StringAppend(Self, Char))

OpenBrace ==
    /\ Taking("object_open")
    /\ Iterated(ObjectOpen(Self))

CloseBrace ==
    /\ Taking("object_close")
    /\ Iterated(ObjectClose(Self))

OpenQuote ==
    /\ Taking("quote")
    /\ Iterated(QuoteOpen(Self))

Colon ==
    /\ Taking("colon")
    /\ Iterated(Self)

Comma ==
    /\ Taking("comma")
    /\ Iterated(Self)

Space ==
    /\ Taking("space")
    /\ Iterated(Self)

Other ==
    /\ Taking("other")
    /\ Iterated(Self)

\* a slip: the buffer not cleared at the end of _parse
ParseEndKeepsBuffer ==
    /\ pc = "scan"
    /\ i >= Len(buffer)
    /\ Becomes(ExposePartial(Self))
    /\ buffer' = buffer
    /\ pc' = "idle"
    /\ i' = 0
    /\ UNCHANGED <<partial_json, fed, chunk_start, snapshot>>

\* the loop has ended: expose a partial value, clear the buffer, return
ParseEnd ==
    /\ pc = "scan"
    /\ i >= Len(buffer)
    /\ LET q == ExposePartial(Self) IN
       /\ Becomes(q)
       /\ buffer' = IF q.raised THEN buffer ELSE <<>>
    /\ pc' = "idle"
    /\ i' = 0
    /\ UNCHANGED <<partial_json, fed, chunk_start, snapshot>>

\* the steps of a call in progress
NextOfCall ==
    \/ InStringEscaped
    \/ InStringBackslash
    \/ InStringClose
    \/ InStringAppend
    \/ OpenBrace
    \/ CloseBrace
    \/ OpenQuote
    \/ Colon
    \/ Comma
    \/ Space
    \/ Other
    \/ ParseEnd

\* get() between two consume calls: the caller keeps what it returns
GetCall ==
    /\ pc = "idle"
    /\ LET r == GetReturn(heap, partial_json) IN
       /\ heap' = r.heap
       /\ snapshot' = r.ref
    /\ UNCHANGED <<buffer, partial_json, stack, in_string, escape,
                   current_string, expecting_colon, i, pc, raised, fed,
                   chunk_start>>

Next ==
    \/ Consume
    \/ ConsumeDoc
    \/ InStringEscaped
    \/ InStringBackslash
    \/ InStringClose
    \/ InStringAppend
    \/ OpenBrace
    \/ CloseBrace
    \/ OpenQuote
    \/ Colon
    \/ Comma
    \/ Space
    \/ Other
    \/ ParseEnd

Spec == Init /\ [][Next]_vars

\* the parser with a caller that also calls get()
NextGet == Next \/ GetCall

SpecGet == Init /\ [][NextGet]_vars

-----------------------------------------------------------------------------
(* Properties *)

\* the parser as it stood when the latest consume call began
AtCall == ConsumeAll(NewParser, SubSeq(fed, 1, chunk_start))

\* the chunk the latest consume call was given
LastChunk == SubSeq(fed, chunk_start + 1, Len(fed))

\* C1: chunk-boundary insensitivity.  Whenever a consume call has returned,
\* however the characters fed so far were split into chunks (empty chunks,
\* splits inside a key or a value string or after a backslash included), the
\* parser's whole state, and so the result of get(), equals that of a fresh
\* parser given the same characters in one consume call.
C1_ChunkBoundaryInsensitive ==
    pc = "idle" =>
        /\ Self = ConsumeAll(NewParser, fed)
        /\ Get = Tree(ConsumeAll(NewParser, fed).heap, partial_json)
        /\ buffer = <<>>

\* C1 witness: two non-empty chunks, cut between a backslash and the
\* character it escapes, inside a string that has kept its characters
C1_Witness ==
    /\ pc = "idle"
    /\ 0 < chunk_start /\ chunk_start < Len(fed)
    /\ fed[chunk_start] = BACKSLASH
    /\ AtCall.escape
    /\ in_string /\ ~escape
    /\ Len(current_string) >= 2


\* the value exposed under the pending key of parser p's top frame
Exposed(p) == GetItem(p.heap[Top(p).obj], Top(p).key[1])

\* parser p is inside a string and stays inside it all through text
RECURSIVE OpenThroughout(_, _)
OpenThroughout(p, text) ==
    /\ p.in_string
    /\ text = <<>> \/ OpenThroughout(Step(p, Head(text)), Tail(text))

\* the texts of the documents of the supported subset
SupportedTexts ==
    {[text |-> Render(d, sp), doc |-> d] :
        d \in {e \in Docs : Supported(e)}, sp \in Spacings}

\* C2: a complete well-formed text of the supported subset (string values
\* without escapes, nested such objects, distinct keys, with or without
\* whitespace), delivered in any chunks, leaves get() equal to the mapping
\* the text denotes: every key with its string or nested mapping, in order,
\* and nothing else.
C2_WellFormedTextParsed ==
    pc = "idle" =>
        \A t \in SupportedTexts : fed = t.text => Get = t.doc

\* C2 witness: a nested document with a member after the nested object,
\* delivered in more than one chunk, fully consumed
C2_Witness ==
    /\ pc = "idle"
    /\ 0 < chunk_start /\ chunk_start < Len(fed)
    /\ fed = Render(<<ObjMember(<<"a">>, <<StrMember(<<"c">>, <<"x">>),
                                          StrMember(<<"d">>, <<"y">>)>>),
                      StrMember(<<"b">>, <<"x", "y">>)>>, <<" ">>)
    /\ Len(Get) = 2 /\ Len(Get[1].obj) = 2

\* C3: partial-value exposure.  When a consume call returns inside a value
\* string (in_string, not expecting_colon), the top frame has a pending key
\* and the entry under it in the top frame's dict is exactly the accumulated
\* characters (the empty string if none); the return leaves in_string set
\* and the accumulator as it was; and if the string was already open when
\* the call began and stayed open, the value exposed now extends the value
\* exposed when the call began.
C3_ExposedAtReturn ==
    (pc = "idle" /\ in_string /\ ~expecting_colon) =>
        /\ Top(Self).key # None
        /\ HasKey(heap[Top(Self).obj], Top(Self).key[1])
        /\ Exposed(Self) = StrVal(current_string)

C3_ExposedExtends ==
    (/\ pc = "idle"
     /\ AtCall.in_string /\ ~AtCall.expecting_colon
     /\ OpenThroughout(AtCall, LastChunk)) =>
        /\ in_string /\ ~expecting_colon
        /\ Top(Self) = Top(AtCall)
        /\ Exposed(AtCall).kind = "str"
        /\ IsPrefix(Exposed(AtCall).str, Exposed(Self).str)

\* AtCall, computed from the characters fed before the call, is the
\* parser as the call found it
C3_AtCallIsActual == (pc = "scan" /\ i = 0) => Self = AtCall

C3_ReturnKeepsString ==
    (pc = "scan" /\ pc' = "idle" /\ ~raised' /\ in_string) =>
        /\ in_string'
        /\ current_string' = current_string

C3_PartialValueExposure ==
    /\ [](C3_ExposedAtReturn /\ C3_ExposedExtends /\ C3_AtCallIsActual)
    /\ [][C3_ReturnKeepsString]_vars

\* C3 witness: a value string of a nested object open across two calls,
\* exposed empty after the first and with a character after the second
C3_Witness ==
    /\ pc = "idle"
    /\ AtCall.in_string /\ ~AtCall.expecting_colon
    /\ OpenThroughout(AtCall, LastChunk)
    /\ LastChunk # <<>>
    /\ Exposed(AtCall).str = <<>>
    /\ Exposed(Self).str = <<"x">>
    /\ Len(stack) = 2

\* C4: a partial key is never exposed.  No step that ends inside a key
\* string (in_string and expecting_colon), the return of consume included,
\* changes any dict, so no entry appears between the opening quote of a key
\* and its closing quote; and a stream that ends inside its first key
\* leaves get() empty.
C4_KeyStepsKeepDicts == (in_string' /\ expecting_colon') => heap' = heap

C4_EndsInsideFirstKey ==
    (/\ pc = "idle"
     /\ Len(fed) >= 2 /\ fed[1] = LBRACE /\ fed[2] = QUOTE
     /\ \A n \in 3..Len(fed) : fed[n] \notin {QUOTE, BACKSLASH}) =>
        /\ in_string /\ expecting_colon
        /\ current_string = SubSeq(fed, 3, Len(fed))
        /\ Get = <<>>

C4_PartialKeyNotExposed ==
    /\ []C4_EndsInsideFirstKey
    /\ [][C4_KeyStepsKeepDicts]_vars

\* C4 witness: consume has returned inside the second key of a document,
\* after a first entry was stored
C4_Witness ==
    /\ pc = "idle"
    /\ in_string /\ expecting_colon
    /\ current_string = <<"b">>
    /\ Len(Get) = 1
    /\ 0 < chunk_start /\ chunk_start < Len(fed)

\* C5: consume never fails.  Whatever the chunks hold (stray and extra
\* braces, unknown tokens, a trailing backslash, unterminated strings), no
\* exception is raised: every self.stack[-1] finds a frame, every frame's
\* object is a dict, and a returned call has cleared the buffer, ready for
\* the next one.
C5_ConsumeNeverFails ==
    /\ ~raised
    /\ Len(stack) >= 1
    /\ \A n \in 1..Len(stack) : stack[n].obj \in 1..Len(heap)
    /\ pc = "idle" => (buffer = <<>> /\ i = 0)

\* C5 witness: consume has returned after extra closing braces, inside a
\* string that was never closed, right after a backslash
C5_Witness ==
    /\ pc = "idle"
    /\ Len(fed) >= 4
    /\ fed[1] = RBRACE /\ fed[2] = RBRACE
    /\ fed[Len(fed)] = BACKSLASH
    /\ in_string /\ escape

\* C6: the stack always has a frame and its bottom frame holds the dict
\* created at construction, the one get() returns; a '}' outside a string
\* leaves a stack of one frame as it is and removes exactly the top frame
\* of a longer stack.
C6_BottomFrameIsRoot ==
    /\ Len(stack) >= 1
    /\ stack[1].obj = partial_json
    /\ partial_json = 1

C6_CloseStep ==
    Taking("object_close") =>
        /\ partial_json' = partial_json
        /\ IF Len(stack) = 1
           THEN stack' = stack
           ELSE stack' = SubSeq(stack, 1, Len(stack) - 1)

C6_RootNeverPopped ==
    /\ []C6_BottomFrameIsRoot
    /\ [][C6_CloseStep]_vars

\* C6 witness: two closing braces in a row have been scanned, the first
\* of which closed a nested object and the second of which found only the
\* root frame
C6_Witness ==
    /\ pc = "scan"
    /\ i >= 2
    /\ buffer[i] = RBRACE /\ buffer[i - 1] = RBRACE
    /\ ~in_string
    /\ Len(heap) = 2
    /\ Len(Get) = 1 /\ Get[1].kind = "obj"
    /\ Len(stack) = 1

\* the texts of all the documents
AllTexts ==
    {[text |-> Render(d, sp), doc |-> d] : d \in Docs, sp \in Spacings}

\* C7: a value that is a number, true, false, null or an array is skipped
\* and gives no entry: after a whole document, get() holds the entries of
\* the supported values only.
C7_UnsupportedValueNoEntry ==
    pc = "idle" =>
        \A t \in AllTexts : fed = t.text => Get = Denote(t.doc)

\* C8: nesting.  A '{' outside a string under pending key k stores a new
\* empty dict under k in the top frame's dict, leaves that dict's other
\* entries and every other dict alone, makes that frame's key None and
\* pushes (new dict, None); every step that changes a dict changes only
\* the dict of the frame that is on top before the step, and a '}' brings
\* the frame below back on top, so entries go into the new dict until the
\* matching '}' and into the parent after it.
C8_OpenStep ==
    (Taking("object_open") /\ Top(Self).key # None) =>
        LET k == Top(Self).key[1]
            o == Top(Self).obj
            new == Len(heap) + 1
        IN  /\ Len(heap') = new
            /\ heap'[new] = EmptyDict
            /\ HasKey(heap'[o], k)
            /\ GetItem(heap'[o], k) = ObjVal(new)
            /\ Len(heap'[o]) = Len(heap[o]) + (IF HasKey(heap[o], k) THEN 0 ELSE 1)
            /\ \A n \in 1..Len(heap[o]) :
                   heap[o][n].key # k => heap'[o][n] = heap[o][n]
            /\ \A h \in 1..Len(heap) : h # o => heap'[h] = heap[h]
            /\ Len(stack') = Len(stack) + 1
            /\ stack'[Len(stack)] = Frame(o, None)
            /\ stack'[Len(stack) + 1] = Frame(new, None)
            /\ \A n \in 1..(Len(stack) - 1) : stack'[n] = stack[n]

C8_WritesGoToTopFrame ==
    \A h \in 1..Len(heap) : heap'[h] # heap[h] => h = Top(Self).obj

C8_CloseReturnsToParent ==
    (Taking("object_close") /\ Len(stack) > 1) =>
        Top(Self)' = stack[Len(stack) - 1]

C8_NestedDocument ==
    pc = "idle" =>
        \A t \in SupportedTexts :
            (fed = t.text /\ \E n \in 1..Len(t.doc) : t.doc[n].kind = "obj")
                => Get = t.doc

C8_Nesting ==
    /\ []C8_NestedDocument
    /\ [][C8_OpenStep /\ C8_WritesGoToTopFrame /\ C8_CloseReturnsToParent]_vars

\* C8 witness: a nested dict holds an entry attached before its '}' and
\* the root holds one attached after it
C8_Witness ==
    /\ Len(stack) = 1
    /\ Len(Get) = 2
    /\ Get[1].kind = "obj" /\ Len(Get[1].obj) >= 1
    /\ Get[2].kind = "str" /\ Get[2].key = <<"b">>
    /\ Get[2].str = <<"x", "y">>
    /\ ~in_string

\* the characters _parse has scanned so far
Scanned == SubSeq(fed, 1, Len(fed) - (Len(buffer) - i))

\* scanning text from parser p opens no string under a pending key and
\* meets no '{' under a pending key
RECURSIVE Quiet(_, _)
Quiet(p, text) ==
    \/ text = <<>>
    \/ /\ ~(/\ Branch(p, Head(text)) \in {"quote", "object_open"}
             /\ Top(p).key # None)
       /\ Quiet(Step(p, Head(text)), Tail(text))

\* C9: get() of a fresh parser is the empty dict, and it stays empty as
\* long as no value string has been opened and no '{' has been seen under
\* a pending key.
C9_EmptyUntilFirstValue ==
    Quiet(NewParser, Scanned) =>
        /\ Get = <<>>
        /\ heap = <<EmptyDict>>

\* C9 witness: consume has returned with a first key closed and pending,
\* and nothing after it but a colon
C9_Witness ==
    /\ pc = "idle"
    /\ Quiet(NewParser, Scanned)
    /\ Top(Self).key = Some(<<"a">>)
    /\ fed[Len(fed)] = COLON
    /\ fed[1] = LBRACE

\* s is a Python str
IsStr(s) == DOMAIN s = 1..Len(s) /\ \A n \in 1..Len(s) : s[n] \in STRING

\* C10: every value stored in any dict is a str or a dict of the heap, and
\* every key is a str.
C10_ResultShape ==
    \A h \in 1..Len(heap) :
        \A n \in 1..Len(heap[h]) :
            /\ IsStr(heap[h][n].key)
            /\ \/ /\ heap[h][n].val.kind = "str"
                  /\ IsStr(heap[h][n].val.str)
               \/ /\ heap[h][n].val.kind = "obj"
                  /\ heap[h][n].val.ref \in 2..Len(heap)

\* C10 witness: the root holds a str and a dict, and the dict two strs
C10_Witness ==
    /\ Len(Get) = 2
    /\ Get[1].kind = "str" /\ Get[2].kind = "obj"
    /\ Len(Get[2].obj) = 2
    /\ Get[2].obj[2].kind = "str"

\* C11, the state part: expecting_colon is set only inside a string, and a
\* string that is not a key is read under a pending key of the top frame
C11_RoleFlags ==
    /\ expecting_colon => in_string
    /\ (in_string /\ ~expecting_colon) => Top(Self).key # None

\* C11, the opening quote: the string is a key exactly when the top frame
\* has no pending key, whatever was scanned before (a colon or none)
C11_RoleSetAtQuote ==
    (pc = "scan" /\ i < Len(buffer) /\ ~in_string /\ Char = QUOTE)
        => /\ in_string'
           /\ expecting_colon' = (Top(Self).key = None)
           /\ stack' = stack

\* C11, inside the string the role stays as the opening quote set it
C11_RoleKept ==
    (in_string /\ in_string') => expecting_colon' = expecting_colon

\* C11: expecting_colon implies in_string; a string being read with
\* expecting_colon false has a pending key in the top frame; the role is set
\* at the opening quote by the absence of the top frame's pending key alone
C11_RoleOfString ==
    /\ []C11_RoleFlags
    /\ [][C11_RoleSetAtQuote /\ C11_RoleKept]_vars

\* a value string opened right after its key, no colon fed at all
C11_Witness ==
    /\ pc = "idle"
    /\ in_string /\ ~expecting_colon
    /\ Top(Self).key = Some(<<"a">>)
    /\ \A n \in 1..Len(fed) : fed[n] # COLON

\* C12, the backslash: inside a string and not escaped, it is not appended
\* and sets escape
C12_BackslashStep ==
    (pc = "scan" /\ i < Len(buffer) /\ in_string /\ ~escape
     /\ Char = BACKSLASH)
        => /\ escape'
           /\ current_string' = current_string
           /\ in_string'
           /\ UNCHANGED <<heap, stack, expecting_colon>>

\* C12, the character after it: any character, a quote or a backslash
\* too, is appended as it is, clears escape and leaves the string open
C12_EscapedStep ==
    (pc = "scan" /\ i < Len(buffer) /\ in_string /\ escape)
        => /\ current_string' = Append(current_string, Char)
           /\ ~escape'
           /\ in_string'
           /\ UNCHANGED <<heap, stack, expecting_colon>>

\* C12, across calls: neither the return nor the next call touches escape
C12_EscapeCrossesCalls ==
    (pc = "idle" \/ pc' = "idle") => escape' = escape

\* C12: a backslash in a string sets escape and is dropped; the next
\* character is appended verbatim, clears escape and does not close the
\* string, also when it comes first in the next chunk
C12_EscapeHandling ==
    [][C12_BackslashStep /\ C12_EscapedStep /\ C12_EscapeCrossesCalls]_vars

\* a chunk ended on the backslash and the next one began with a quote,
\* which is now the text of the string still open
C12_Witness ==
    /\ pc = "idle"
    /\ chunk_start >= 2
    /\ Len(fed) = chunk_start + 1
    /\ fed[chunk_start] = BACKSLASH
    /\ AtCall.escape
    /\ fed[chunk_start + 1] = QUOTE
    /\ in_string /\ ~escape
    /\ current_string = <<QUOTE>>

\* the characters the code gives an effect outside a string
Tokens == {LBRACE, RBRACE, QUOTE}

\* C13: outside a string a colon, a comma, a whitespace character, any
\* other character that is not '{', '}' or '"', and a '{' met while the top
\* frame has no pending key leave the result tree, the stack, the three
\* flags and the accumulator as they were
C13_NoEffectFrame ==
    [][(/\ pc = "scan" /\ i < Len(buffer)
        /\ ~in_string
        /\ \/ Char \notin Tokens
           \/ Char = LBRACE /\ Top(Self).key = None)
          => /\ UNCHANGED <<heap, partial_json, stack, in_string, escape,
                            expecting_colon, current_string>>
             /\ Get' = Get
             /\ ~raised']_vars

\* the scan has passed a '{' without pending key, a colon, a space and
\* a digit, and the parser is as the key left it
C13_Witness ==
    /\ pc = "scan"
    /\ Scanned = <<LBRACE, QUOTE, "a", QUOTE, COLON, " ", "1">>
    /\ stack = <<Frame(1, Some(<<"a">>))>>
    /\ Get = <<>>
    /\ ~in_string /\ ~escape /\ ~expecting_colon
    /\ current_string = <<>>

\* a step that reads the closing quote of a string
ClosingQuote ==
    pc = "scan" /\ i < Len(buffer) /\ in_string /\ ~escape /\ Char = QUOTE

\* a step that reads a '{' while the top frame has a pending key
OpenUnderKey ==
    /\ pc = "scan" /\ i < Len(buffer) /\ ~in_string /\ Char = LBRACE
    /\ Top(Self).key # None

\* a step that reads a '}' that pops a frame
Popping ==
    /\ pc = "scan" /\ i < Len(buffer) /\ ~in_string /\ Char = RBRACE
    /\ Len(stack) > 1

\* C14, the key: its closing quote makes the accumulated text the pending
\* key of the top frame and changes no dict
C14_KeyClose ==
    (ClosingQuote /\ expecting_colon)
        => /\ stack' = [stack EXCEPT ![Len(stack)] =
                            Frame(Top(Self).obj, Some(current_string))]
           /\ heap' = heap

\* C14, the value: its closing quote writes the one entry at the pending
\* key of the top frame's dict and clears that key in the same step
C14_ValueClose ==
    (ClosingQuote /\ ~expecting_colon)
        => /\ heap' = [heap EXCEPT ![Top(Self).obj] =
                          SetItem(@, Top(Self).key[1], StrVal(current_string))]
           /\ stack' = [stack EXCEPT ![Len(stack)] =
                            Frame(Top(Self).obj, None)]

\* C14, the nested object: '{' under a pending key writes the one entry at
\* that key in the dict the top frame had before the push, and clears the key
C14_OpenUnderKey ==
    OpenUnderKey
        => /\ heap' = [Append(heap, EmptyDict) EXCEPT ![Top(Self).obj] =
                          SetItem(@, Top(Self).key[1],
                                  ObjVal(Len(heap) + 1))]
           /\ Len(stack') = Len(stack) + 1
           /\ stack'[Len(stack)] = Frame(Top(Self).obj, None)

\* C14, the frame: the pending key of a frame that stays on the stack
\* changes in these three steps only
C14_KeyChangesOnlyThere ==
    \A n \in 1..Len(stack) :
        (n <= Len(stack') /\ stack'[n].key # stack[n].key)
            => /\ n = Len(stack)
               /\ ClosingQuote \/ OpenUnderKey

\* C14, the pop: the other way a pending key goes away
C14_StackShrinksOnlyByPop ==
    Len(stack') < Len(stack) => (Popping /\ Len(stack') = Len(stack) - 1)

\* C14: closing a key string sets the top frame's pending key and changes
\* no dict; closing a value string, or '{' under a pending key, writes
\* exactly one entry at the pending key and clears it in the same step; no
\* other step changes a frame's pending key, except that '}' pops a frame
C14_PendingKeyLifecycle ==
    [][/\ C14_KeyClose
       /\ C14_ValueClose
       /\ C14_OpenUnderKey
       /\ C14_KeyChangesOnlyThere
       /\ C14_StackShrinksOnlyByPop]_vars

\* the closing quote of the value "xy" has just been read: the entry is
\* there and the key a is no longer pending
C14_Witness ==
    /\ pc = "scan"
    /\ i >= 1 /\ buffer[i] = QUOTE
    /\ ~in_string
    /\ stack = <<Frame(1, None)>>
    /\ Get = <<StrMember(<<"a">>, <<"x", "y">>)>>
    /\ AtCall.in_string
    /\ AtCall.current_string = <<"x">>

\* dict h is stored as a value in dict o
StoredIn(h, o) ==
    \E n \in 1..Len(heap[o]) : heap[o][n].val = ObjVal(h)

\* the depth of dict h in the result tree, the root at depth 0; -1 when no
\* chain of entries leads from the root to h
RECURSIVE Depth(_)
Depth(h) ==
    IF h = partial_json THEN 0
    ELSE LET holders == {o \in 1..(h - 1) : StoredIn(h, o)}
             depths == {Depth(o) : o \in holders} \ {-1}
         IN  IF depths = {} THEN -1
             ELSE 1 + CHOOSE k \in depths : \A m \in depths : k <= m

\* C15: the dict of every frame above the bottom is stored as a value in
\* the dict of the frame directly below, so every frame's dict is reachable
\* from the root and the stack is as long as the depth of the top frame's
\* dict in the result tree plus one
C15_FrameChain ==
    /\ \A n \in 2..Len(stack) : StoredIn(stack[n].obj, stack[n - 1].obj)
    /\ \A n \in 1..Len(stack) : Depth(stack[n].obj) = n - 1
    /\ Len(stack) = Depth(Top(Self).obj) + 1

\* three frames, the top one writing into the innermost dict
C15_Witness ==
    /\ Len(stack) = 3
    /\ Get = <<ObjMember(<<"a">>,
                 <<ObjMember(<<"c">>, <<StrMember(<<"d">>, <<"x">>)>>)>>)>>

\* C16: get() returns the root dict itself, not a copy: the reference a
\* caller got from get() is the one every later get() returns, and what is
\* read through it is the current result, entries added and partial values
\* extended by later consume calls included
C16_SnapshotIsLive ==
    snapshot # 0 =>
        /\ snapshot = GetReturn(heap, partial_json).ref
        /\ GetReturn(heap, partial_json).heap = heap
        /\ Tree(heap, snapshot) = Get

\* a call is running, so the reference was taken before it began, when
\* the result was {a: x}; read through it now are the value this call
\* extended and the entry it added
C16_Witness ==
    /\ snapshot # 0
    /\ pc = "scan"
    /\ Tree(AtCall.heap, 1) = <<StrMember(<<"a">>, <<"x">>)>>
    /\ Tree(heap, snapshot) =
           <<StrMember(<<"a">>, <<"x", "y">>), StrMember(<<"b">>, <<"x", "y">>)>>

\* a step of the loop body: one character transition
Transition == pc = "scan" /\ i < Len(buffer)

\* C17, between calls the buffer is empty; during a call it holds the
\* chunk of this call and nothing else, and i counts the transitions made
C17_BufferIsChunk ==
    /\ pc = "idle" => buffer = <<>> /\ i = 0
    /\ pc = "scan" => buffer = LastChunk /\ i \in 0..Len(buffer)

\* C17, a call starts with no transition made
C17_CallStep ==
    (pc = "idle" /\ pc' = "scan")
        => /\ i' = 0
           /\ buffer' = SubSeq(fed', Len(fed) + 1, Len(fed'))

\* C17, a transition consumes the one character at i and moves on
C17_TransitionStep ==
    Transition
        => /\ i' = i + 1
           /\ buffer' = buffer
           /\ pc' = "scan"
           /\ Scanned' = Append(Scanned, Char)

\* C17, the return comes after exactly Len(chunk) transitions and
\* empties the buffer
C17_ReturnStep ==
    (pc = "scan" /\ pc' = "idle")
        => /\ i = Len(LastChunk)
           /\ Scanned = fed
           /\ buffer' = <<>>

\* C17, termination: while a call runs some step of it can be taken, and
\* every step of it brings the return nearer
C17_CallProgresses ==
    pc = "scan"
        => \/ pc' = "idle"
           \/ Len(buffer') - i' < Len(buffer) - i

\* C17: a consume call of n characters makes exactly n character
\* transitions and returns with the buffer empty, so that no character is
\* scanned by a later call again
C17_EachCharacterOnce ==
    /\ [](C17_BufferIsChunk /\ (pc = "scan" => ENABLED NextOfCall))
    /\ [][/\ C17_CallStep
          /\ C17_TransitionStep
          /\ C17_ReturnStep
          /\ C17_CallProgresses]_vars

\* the second call has made its two transitions, the first character
\* scanned being the one after the first chunk
C17_Witness ==
    /\ pc = "scan"
    /\ chunk_start = 2
    /\ Len(buffer) = 2 /\ i = 2
    /\ fed = <<QUOTE, "a", QUOTE, QUOTE>>
    /\ Top(Self).key = Some(<<"a">>)
    /\ in_string /\ current_string = <<>>

\* C18, the state part: no frame below the top has a pending key
C18_OnlyTopHoldsKey ==
    \A n \in 1..(Len(stack) - 1) : stack[n].key = None

\* C18, the pop: the frame that comes on top has no pending key, whatever
\* key the popped frame held
C18_PopStep ==
    Popping
        => /\ stack' = SubSeq(stack, 1, Len(stack) - 1)
           /\ stack'[Len(stack')].key = None

\* C18, the string opened next: with no pending key on top it is a key
C18_QuoteAfterPop ==
    (pc = "scan" /\ i < Len(buffer) /\ ~in_string /\ Char = QUOTE
     /\ Top(Self).key = None)
        => expecting_colon'

\* C18: every frame below the top has no pending key; after '}' pops a
\* frame the new top has none either, the popped frame's key being
\* dropped, and the next string opened is read as a key
C18_OnlyTopFrameHasKey ==
    /\ []C18_OnlyTopHoldsKey
    /\ [][C18_PopStep /\ C18_QuoteAfterPop]_vars

\* the inner frame was popped with its key c pending (its value a literal);
\* the string after it was read as the key b of the outer dict
C18_Witness ==
    /\ pc = "idle"
    /\ fed = Render(<<ObjMember(<<"a">>, <<LitMember(<<"c">>, <<"1">>)>>),
                      StrMember(<<"b">>, <<"x", "y">>)>>, <<>>)
    /\ Get = <<ObjMember(<<"a">>, <<>>), StrMember(<<"b">>, <<"x", "y">>)>>
    /\ Len(heap) = 2

\* the keys of dict d
Keys(d) == {d[n].key : n \in 1..Len(d)}

\* C19: no entry is ever removed: every dict stays, and keeps every key it
\* has, in the place it has it; a write under a key a dict has replaces
\* the value there
C19_EntriesNeverRemoved ==
    [][/\ Len(heap') >= Len(heap)
       /\ \A h \in 1..Len(heap) :
            /\ Keys(heap[h]) \subseteq Keys(heap'[h])
            /\ Len(heap'[h]) >= Len(heap[h])
            /\ \A n \in 1..Len(heap[h]) : heap'[h][n].key = heap[h][n].key
       /\ Keys(Get) \subseteq Keys(Get')]_vars

\* the entry a held a dict, whose frame was popped, and holds a string
\* now: the value was replaced and the root has the one key as before
C19_Witness ==
    /\ pc = "idle"
    /\ Len(heap) = 2
    /\ heap[2] = <<[key |-> <<"c">>, val |-> StrVal(<<"x">>)]>>
    /\ Get = <<StrMember(<<"a">>, <<"x", "y">>)>>
    /\ AtCall.heap[1] = <<[key |-> <<"a">>, val |-> ObjVal(2)]>>

\* the entry a held a string and holds a dict now
C19_WitnessStrToObj ==
    /\ Get = <<ObjMember(<<"a">>, <<>>)>>
    /\ \E n \in 1..Len(fed) :
         Tree(ConsumeAll(NewParser, SubSeq(fed, 1, n)).heap, 1)
             = <<StrMember(<<"a">>, <<"x">>)>>

\* C20, the state part: outside a string the accumulator is empty and
\* escape is false
C20_CleanOutside ==
    ~in_string => current_string = <<>> /\ ~escape

\* C20, the opening quote: the string starts with nothing accumulated and
\* no escape pending
C20_StringStartsClean ==
    (~in_string /\ in_string') => current_string' = <<>> /\ ~escape'

\* C20: in every reachable state with in_string false current_string is
\* empty and escape is false, so that a string just opened holds no
\* leftover of the one before
C20_CleanOutsideStrings ==
    /\ []C20_CleanOutside
    /\ [][C20_StringStartsClean]_vars

\* a key with an escaped quote for text has been closed, and the string
\* opened after it has nothing accumulated
C20_Witness ==
    /\ pc = "scan"
    /\ i >= 1 /\ buffer[i] = QUOTE
    /\ in_string /\ ~expecting_colon
    /\ Top(Self).key = Some(<<QUOTE>>)
    /\ current_string = <<>> /\ ~escape

====
